---- MODULE Spec2Model ----
\* Model of the web response helpers (Respond, RespondError) and of the
\* Panics middleware of go-callback-service.
\*
\* Strings that reach the response body are sequences of one-character
\* strings, so that JSON encoding (quoting and escaping) is computed and not
\* assumed.  One request is followed from the call of one entry point to its
\* return to the caller or to the termination of the process.
EXTENDS Integers, Sequences, FiniteSets, TLC

VARIABLES
    pc,          \* position of the goroutine serving the request
    op,          \* entry point called: "none", "Respond", "RespondError", "Panics"
    hasValues,   \* ctx.Value(KeyValues).(*Values) succeeds
    v,           \* the request-scoped *Values struct
    w,           \* the http.ResponseWriter: header, status line, body
    calls,       \* calls made on json.Marshal and on the writer, in order
    span,        \* the trace span opened by the entry point
    logs,        \* lines written to the logger
    exited,      \* the process has terminated (os.Exit)
    rData,       \* Respond's argument data
    rStatus,     \* Respond's argument statusCode
    rRes,        \* Respond's local res
    rRet,        \* Respond's return value
    eErr,        \* RespondError's argument err
    eStatus,     \* RespondError's argument statusCode
    eRet,        \* RespondError's return value
    hPanic,      \* the value the downstream handler panicked with ("none": it returned)
    panicking,   \* the value of the panic in flight ("none": no panic)
    afterCalls   \* number of calls of the downstream handler

vars == <<pc, op, hasValues, v, w, calls, span, logs, exited, rData, rStatus,
          rRes, rRet, eErr, eStatus, eRet, hPanic, panicking, afterCalls>>

----------------------------------------------------------------------------
\* Bounds of the model.

\* Longest code, detail or string value.
MaxLen == 1

\* Most wrapping layers around an error's root cause.
MaxWrap == 1

----------------------------------------------------------------------------
\* Values.

\* A plain character, one that JSON escapes with a backslash, and one that
\* encoding/json escapes by its code point (HTML-safe encoding).
Chars == {"a", "\"", "<"}

Strings == UNION {[1..n -> Chars] : n \in 0..MaxLen}

StatusNoContent == 204

StatusInternalServerError == 500

StatusCodes == {200, StatusNoContent, 400, StatusInternalServerError}

TraceIDs == {"trace-1", "trace-2"}

\* One layer of an error value: what its Error() method prints, and, for a
\* layer that implements PublicError ("public"), its Code() and Detail().
PublicLayer(c, d) ==
    [kind |-> "public", code |-> c, detail |-> d, text |-> <<"y">>]

OpaqueLayer(t) ==
    [kind |-> "opaque", code |-> <<>>, detail |-> <<>>, text |-> t]

RootLayers ==
    {PublicLayer(c, d) : c \in Strings, d \in Strings}
        \cup {OpaqueLayer(<<"x">>), OpaqueLayer(<<"x", "y">>)}

\* Layers that wrap another error (they have a Cause method): a wrapper
\* without public code, and a wrapper that is itself a PublicError.
WrapLayers == {OpaqueLayer(<<"y", "x">>), PublicLayer(<<"a">>, <<"<">>)}

\* An error is the sequence of its layers, outermost first, the root cause
\* last; the nil error is the empty sequence.
RECURSIVE ErrorsOfDepth(_)
ErrorsOfDepth(n) ==
    IF n = 0 THEN {<<r>> : r \in RootLayers}
    ELSE {<<l>> \o e : l \in WrapLayers, e \in ErrorsOfDepth(n - 1)}

Errors == {<<>>} \cup UNION {ErrorsOfDepth(n) : n \in 0..MaxWrap}

\* Values handed to Respond.
StringValue(s) == [type |-> "string", val |-> <<s>>]

ErrorResponse(e, d) == [type |-> "ErrorResponse", val |-> <<e, d>>]

NilValue == [type |-> "nil", val |-> <<>>]

ChanValue == [type |-> "chan", val |-> <<>>]

DataValues ==
    {StringValue(s) : s \in Strings}
        \cup {ErrorResponse(e, d) : e \in Strings, d \in Strings}
        \cup {NilValue, ChanValue}

NoData == NilValue

----------------------------------------------------------------------------
\* encoding/json.

\* The encoding of one character inside a JSON string.
EscapeChar(c) ==
    CASE c = "\"" -> <<"\\", "\"">>
      [] c = "\\" -> <<"\\", "\\">>
      [] c = "<"  -> <<"\\", "u", "0", "0", "3", "c">>
      [] OTHER    -> <<c>>

RECURSIVE Escape(_)
Escape(s) == IF s = <<>> THEN <<>> ELSE EscapeChar(Head(s)) \o Escape(Tail(s))

Quote(s) == <<"\"">> \o Escape(s) \o <<"\"">>

KeyError == <<"{", "\"", "e", "r", "r", "o", "r", "\"", ":">>

KeyMessage == <<",", "\"", "m", "e", "s", "s", "a", "g", "e", "\"", ":">>

MarshalErrorResponseUntagged(e, d) ==
    <<"{", "\"", "E", "r", "r", "o", "r", "\"", ":">> \o Quote(e)
        \o <<",", "\"", "D", "e", "t", "a", "i", "l", "\"", ":">> \o Quote(d)
        \o <<"}">>

\* json.Marshal of an ErrorResponse, by its struct tags.
MarshalErrorResponse(e, d) ==
    KeyError \o Quote(e) \o KeyMessage \o Quote(d) \o <<"}">>

\* json.Marshal(data): the bytes, or an error for an unsupported type.
Marshal(data) ==
    CASE data.type = "string" ->
            [err |-> FALSE, res |-> Quote(data.val[1])]
      [] data.type = "ErrorResponse" ->
            [err |-> FALSE, res |-> MarshalErrorResponse(data.val[1], data.val[2])]
      [] data.type = "nil" ->
            [err |-> FALSE, res |-> <<"n", "u", "l", "l">>]
      [] OTHER ->
            [err |-> TRUE, res |-> <<>>]

----------------------------------------------------------------------------
\* net/http.

\* http.StatusText
StatusText(code) ==
    CASE code = 200 -> <<"O", "K">>
      [] code = 400 -> <<"B", "a", "d", " ", "R", "e", "q", "u", "e", "s", "t">>
      [] code = 500 -> <<"I", "n", "t", "e", "r", "n", "a", "l", " ",
                         "S", "e", "r", "v", "e", "r", " ",
                         "E", "r", "r", "o", "r">>
      [] OTHER -> <<>>

JSONContentType == "application/json; charset=utf-8"

NewWriter == [header |-> "", status |-> 0, body |-> <<>>]

SetContentTypeNoCharset(rw, value) == [rw EXCEPT !.header = "application/json"]

\* w.Header().Set("Content-Type", value)
SetContentType(rw, value) == [rw EXCEPT !.header = value]

\* w.WriteHeader(code): the first status line is the one sent.
WriteHeader(rw, code) ==
    IF rw.status = 0 THEN [rw EXCEPT !.status = code] ELSE rw

\* w.Write(b) accepting the first n bytes; a write before any WriteHeader
\* sends 200.
Write(rw, b, n) ==
    [rw EXCEPT !.status = IF rw.status = 0 THEN 200 ELSE rw.status,
               !.body = rw.body \o SubSeq(b, 1, n)]

----------------------------------------------------------------------------
\* github.com/pkg/errors and the type switch of RespondError.

CauseOutermost(err) == IF err = <<>> THEN err ELSE <<Head(err)>>

\* errors.Cause: follow Cause() until a layer has none.
RECURSIVE Cause(_)
Cause(err) ==
    IF Len(err) <= 1 THEN err ELSE Cause(Tail(err))

\* case PublicError
IsPublicError(cause) == cause # <<>> /\ cause[1].kind = "public"

----------------------------------------------------------------------------
\* go.opencensus.io/trace.

NoSpan == [name |-> "", started |-> 0, ended |-> 0, attrs |-> <<>>, status |-> 0]

StartSpan(name) == [NoSpan EXCEPT !.name = name, !.started = 1]

EndSpan(s) == [s EXCEPT !.ended = s.ended + 1]

ServerErrorCode == <<"s", "e", "r", "v", "e", "r", "_", "e", "r", "r", "o", "r">>

zipkinSetErrorOnSpan(s, errcode, errmessage, statusCode) ==
    [s EXCEPT !.attrs = s.attrs \o <<<<"error", errcode>>>>
                          \o (IF errmessage # <<>>
                              THEN <<<<"message", errmessage>>>>
                              ELSE <<>>),
              !.status = statusCode]

----------------------------------------------------------------------------
\* log.

FatalLine == [format |-> "web value missing from context", args |-> <<>>]

PanicLine(r) == [format |-> "panic: %v", args |-> <<r>>]

StackLine(traceID) == [format |-> "%s :\n%s", args |-> <<traceID, "debug.Stack()">>]

----------------------------------------------------------------------------

Init ==
    /\ pc = "idle"
    /\ op = "none"
    /\ hasValues = FALSE
    /\ v = [StatusCode |-> 0, TraceID |-> ""]
    /\ w = NewWriter
    /\ calls = <<>>
    /\ span = NoSpan
    /\ logs = <<>>
    /\ exited = FALSE
    /\ rData = NoData
    /\ rStatus = 0
    /\ rRes = <<>>
    /\ rRet = "none"
    /\ eErr = <<>>
    /\ eStatus = 0
    /\ eRet = "none"
    /\ hPanic = "none"
    /\ panicking = "none"
    /\ afterCalls = 0

----------------------------------------------------------------------------
\* Entry points.  The caller supplies the arguments; the context either
\* carries the *Values struct or does not.

\* !ok of v, ok := ctx.Value(KeyValues).(*Values)
\* The *Values struct of a request; only the Panics middleware reads its
\* TraceID.
NewValues(tid) == [StatusCode |-> 0, TraceID |-> tid]

MissingValuesUnchecked == FALSE

MissingValues == ~hasValues

CallRespond ==
    /\ pc = "idle"
    /\ \E data \in DataValues, statusCode \in StatusCodes, present \in BOOLEAN :
        /\ op' = "Respond"
        /\ hasValues' = present
        /\ v' = NewValues("trace-1")
        /\ rData' = data
        /\ rStatus' = statusCode
    /\ pc' = "Respond"
    /\ UNCHANGED <<w, calls, span, logs, exited, rRes, rRet, eErr, eStatus,
                   eRet, hPanic, panicking, afterCalls>>

CallRespondError ==
    /\ pc = "idle"
    /\ \E err \in Errors, statusCode \in StatusCodes, present \in BOOLEAN :
        /\ op' = "RespondError"
        /\ hasValues' = present
        /\ v' = NewValues("trace-1")
        /\ eErr' = err
        /\ eStatus' = statusCode
    /\ pc' = "RespondError"
    /\ UNCHANGED <<w, calls, span, logs, exited, rData, rStatus, rRes, rRet,
                   eRet, hPanic, panicking, afterCalls>>

CallPanics ==
    /\ pc = "idle"
    /\ \E present \in BOOLEAN, tid \in TraceIDs :
        /\ op' = "Panics"
        /\ hasValues' = present
        /\ v' = NewValues(tid)
    /\ pc' = "Panics"
    /\ UNCHANGED <<w, calls, span, logs, exited, rData, rStatus, rRes, rRet,
                   eErr, eStatus, eRet, hPanic, panicking, afterCalls>>

----------------------------------------------------------------------------
\* Respond.

\* Where Respond returns to.
RespondReturnPC == IF op = "Respond" THEN "done" ELSE "RespondErrorReturn"

\* v.StatusCode = statusCode
RecordStatusSkipped(vals, statusCode) == vals

RecordStatus(vals, statusCode) == [vals EXCEPT !.StatusCode = statusCode]

\* statusCode == http.StatusNoContent
IsNoContentNever(statusCode) == FALSE

IsNoContent(statusCode) == statusCode = StatusNoContent

\* v, ok := ctx.Value(KeyValues).(*Values); log.Fatal if !ok;
\* v.StatusCode = statusCode
RespondValues ==
    /\ pc = "Respond"
    /\ IF MissingValues
       THEN /\ logs' = Append(logs, FatalLine)
            /\ exited' = TRUE
            /\ pc' = "exited"
            /\ v' = v
       ELSE /\ v' = RecordStatus(v, rStatus)
            /\ pc' = "RespondBranch"
            /\ UNCHANGED <<logs, exited>>
    /\ UNCHANGED <<op, hasValues, w, calls, span, rData, rStatus, rRes, rRet,
                   eErr, eStatus, eRet, hPanic, panicking, afterCalls>>

\* if statusCode == http.StatusNoContent { w.WriteHeader(statusCode); return nil }
RespondNoContent ==
    /\ pc = "RespondBranch"
    /\ IsNoContent(rStatus)
    /\ w' = WriteHeader(w, rStatus)
    /\ calls' = Append(calls, "WriteHeader")
    /\ rRet' = "nil"
    /\ pc' = RespondReturnPC
    /\ UNCHANGED <<op, hasValues, v, span, logs, exited, rData, rStatus, rRes,
                   eErr, eStatus, eRet, hPanic, panicking, afterCalls>>

RespondMarshalIgnoringError ==
    /\ pc = "RespondBranch"
    /\ ~IsNoContent(rStatus)
    /\ calls' = Append(calls, "Marshal")
    /\ rRes' = Marshal(rData).res
    /\ pc' = "RespondSetHeader"
    /\ UNCHANGED <<op, hasValues, v, w, span, logs, exited, rData, rStatus,
                   rRet, eErr, eStatus, eRet, hPanic, panicking, afterCalls>>

\* res, err := json.Marshal(data); if err != nil { return err }
RespondMarshal ==
    /\ pc = "RespondBranch"
    /\ ~IsNoContent(rStatus)
    /\ calls' = Append(calls, "Marshal")
    /\ LET m == Marshal(rData) IN
        IF m.err
        THEN /\ rRet' = "marshal error"
             /\ pc' = RespondReturnPC
             /\ rRes' = rRes
        ELSE /\ rRes' = m.res
             /\ pc' = "RespondSetHeader"
             /\ rRet' = rRet
    /\ UNCHANGED <<op, hasValues, v, w, span, logs, exited, rData, rStatus,
                   eErr, eStatus, eRet, hPanic, panicking, afterCalls>>

\* w.Header().Set("Content-Type", "application/json; charset=utf-8")
RespondSetHeader ==
    /\ pc = "RespondSetHeader"
    /\ w' = SetContentType(w, JSONContentType)
    /\ calls' = Append(calls, "Header.Set")
    /\ pc' = "RespondWriteHeader"
    /\ UNCHANGED <<op, hasValues, v, span, logs, exited, rData, rStatus, rRes,
                   rRet, eErr, eStatus, eRet, hPanic, panicking, afterCalls>>

\* w.WriteHeader(statusCode)
RespondWriteHeader ==
    /\ pc = "RespondWriteHeader"
    /\ w' = WriteHeader(w, rStatus)
    /\ calls' = Append(calls, "WriteHeader")
    /\ pc' = "RespondWrite"
    /\ UNCHANGED <<op, hasValues, v, span, logs, exited, rData, rStatus, rRes,
                   rRet, eErr, eStatus, eRet, hPanic, panicking, afterCalls>>

\* if _, err := w.Write(res); err != nil { return err }; return nil
\* The writer accepts all of res, or fails after a strict prefix of it.
RespondWrite ==
    /\ pc = "RespondWrite"
    /\ \E n \in 0..Len(rRes) :
        /\ w' = Write(w, rRes, n)
        /\ rRet' = IF n = Len(rRes) THEN "nil" ELSE "write error"
    /\ calls' = Append(calls, "Write")
    /\ pc' = RespondReturnPC
    /\ UNCHANGED <<op, hasValues, v, span, logs, exited, rData, rStatus, rRes,
                   eErr, eStatus, eRet, hPanic, panicking, afterCalls>>

----------------------------------------------------------------------------
\* RespondError.

\* _, span := trace.StartSpan(ctx, "web.RespondError"); defer span.End()
RespondErrorStart ==
    /\ pc = "RespondError"
    /\ span' = StartSpan("web.RespondError")
    /\ pc' = "RespondErrorSwitch"
    /\ UNCHANGED <<op, hasValues, v, w, calls, logs, exited, rData, rStatus,
                   rRes, rRet, eErr, eStatus, eRet, hPanic, panicking,
                   afterCalls>>

\* case PublicError: tag the span, call Respond(ctx, w, er, statusCode)
RespondErrorPublic ==
    /\ pc = "RespondErrorSwitch"
    /\ IsPublicError(Cause(eErr))
    /\ LET err == Cause(eErr)[1] IN
        /\ span' = zipkinSetErrorOnSpan(span, err.code, err.detail, eStatus)
        /\ rData' = ErrorResponse(err.code, err.detail)
        /\ rStatus' = eStatus
    /\ pc' = "Respond"
    /\ UNCHANGED <<op, hasValues, v, w, calls, logs, exited, rRes, rRet, eErr,
                   eStatus, eRet, hPanic, panicking, afterCalls>>

\* default: tag the span, call Respond(ctx, w,
\*   ErrorResponse{Error: http.StatusText(500)}, 500)
RespondErrorDefault ==
    /\ pc = "RespondErrorSwitch"
    /\ ~IsPublicError(Cause(eErr))
    /\ span' = zipkinSetErrorOnSpan(span, ServerErrorCode, <<>>,
                                    StatusInternalServerError)
    /\ rData' = ErrorResponse(StatusText(StatusInternalServerError), <<>>)
    /\ rStatus' = StatusInternalServerError
    /\ pc' = "Respond"
    /\ UNCHANGED <<op, hasValues, v, w, calls, logs, exited, rRes, rRet, eErr,
                   eStatus, eRet, hPanic, panicking, afterCalls>>

\* if err := Respond(...); err != nil { return err } ... return nil,
\* then the deferred span.End()
RespondErrorReturn ==
    /\ pc = "RespondErrorReturn"
    /\ eRet' = rRet
    /\ span' = EndSpan(span)
    /\ pc' = "done"
    /\ UNCHANGED <<op, hasValues, v, w, calls, logs, exited, rData, rStatus,
                   rRes, rRet, eErr, eStatus, hPanic, panicking, afterCalls>>

----------------------------------------------------------------------------
\* The Panics middleware.

\* Values a handler may panic with; "nil" is panic(nil).
PanicValues == {"nil", "boom", "runtime error"}

\* What the handler left on the response before returning or panicking.
HandlerWrites ==
    {NewWriter,
     WriteHeader(NewWriter, 200),
     Write(WriteHeader(NewWriter, 200), <<"o", "k">>, 2)}

\* The value the runtime raises for panic(val): before Go 1.21 (and with
\* GODEBUG=panicnil=1) panic(nil) raises nil, later a *runtime.PanicNilError.
Raised(val, panicnil) ==
    IF val = "nil" /\ ~panicnil THEN "PanicNilError" ELSE val

\* recover(): the value of the panic in flight, nil when there is none or
\* when it was raised with nil.
Recover(p) == IF p = "none" THEN "nil" ELSE p

\* ctx, span := trace.StartSpan(ctx, "internal.middleware.Panics"); defer span.End()
PanicsStart ==
    /\ pc = "Panics"
    /\ span' = StartSpan("internal.middleware.Panics")
    /\ pc' = "PanicsValues"
    /\ UNCHANGED <<op, hasValues, v, w, calls, logs, exited, rData, rStatus,
                   rRes, rRet, eErr, eStatus, eRet, hPanic, panicking,
                   afterCalls>>

\* v, ok := ctx.Value(web.KeyValues).(*web.Values); log.Fatal if !ok;
\* defer func() {...}()
PanicsValues ==
    /\ pc = "PanicsValues"
    /\ IF MissingValues
       THEN /\ logs' = Append(logs, FatalLine)
            /\ exited' = TRUE
            /\ pc' = "exited"
       ELSE /\ pc' = "PanicsAfter"
            /\ UNCHANGED <<logs, exited>>
    /\ UNCHANGED <<op, hasValues, v, w, calls, span, rData, rStatus, rRes,
                   rRet, eErr, eStatus, eRet, hPanic, panicking, afterCalls>>

\* after(ctx, w, r): the downstream handler returns, or panics.
PanicsAfter ==
    /\ pc = "PanicsAfter"
    /\ afterCalls' = afterCalls + 1
    /\ \E hw \in HandlerWrites : w' = hw
    /\ \/ /\ hPanic' = "none"
          /\ panicking' = "none"
       \/ \E val \in PanicValues, panicnil \in BOOLEAN :
            /\ hPanic' = val
            /\ panicking' = Raised(val, panicnil)
    /\ pc' = "PanicsDeferred"
    /\ UNCHANGED <<op, hasValues, v, calls, span, logs, exited, rData,
                   rStatus, rRes, rRet, eErr, eStatus, eRet>>

\* The deferred func: if r := recover(); r != nil { log.Printf("panic: %v", r);
\* log.Printf("%s :\n%s", v.TraceID, debug.Stack()) }.  recover() stops the
\* panic in flight.
PanicsDeferred ==
    /\ pc = "PanicsDeferred"
    /\ LET r == Recover(panicking) IN
        logs' = IF r # "nil"
                THEN logs \o <<PanicLine(r), StackLine(v.TraceID)>>
                ELSE logs
    /\ panicking' = "none"
    /\ pc' = "PanicsSpanEnd"
    /\ UNCHANGED <<op, hasValues, v, w, calls, span, exited, rData, rStatus,
                   rRes, rRet, eErr, eStatus, eRet, hPanic, afterCalls>>

\* The deferred span.End(), then the return to the caller.
PanicsSpanEnd ==
    /\ pc = "PanicsSpanEnd"
    /\ span' = EndSpan(span)
    /\ pc' = "done"
    /\ UNCHANGED <<op, hasValues, v, w, calls, logs, exited, rData, rStatus,
                   rRes, rRet, eErr, eStatus, eRet, hPanic, panicking,
                   afterCalls>>

----------------------------------------------------------------------------

Next ==
    \/ CallRespond
    \/ CallRespondError
    \/ CallPanics
    \/ RespondValues
    \/ RespondNoContent
    \/ RespondMarshal
    \/ RespondSetHeader
    \/ RespondWriteHeader
    \/ RespondWrite
    \/ RespondErrorStart
    \/ RespondErrorPublic
    \/ RespondErrorDefault
    \/ RespondErrorReturn
    \/ PanicsStart
    \/ PanicsValues
    \/ PanicsAfter
    \/ PanicsDeferred
    \/ PanicsSpanEnd

Spec == Init /\ [][Next]_vars

\* The goroutine serving the request keeps running until it returns or the
\* process exits.
FairSpec == Spec /\ WF_vars(Next)

----------------------------------------------------------------------------
\* Vocabulary of the properties.

\* The calls made on the writer, in order (json.Marshal left out).
IsWriterCall(c) == c # "Marshal"

WriterCalls == SelectSeq(calls, IsWriterCall)

\* A call of Respond has returned to its caller.
RespondReturned == rRet # "none"

RespondErrorReturned == op = "RespondError" /\ pc = "done"

PanicsReturned == op = "Panics" /\ pc = "done"

\* The root cause of RespondError's err: its innermost layer.
HasRoot == eErr # <<>>

Root == eErr[Len(eErr)]

PublicRoot == HasRoot /\ Root.kind = "public"

IsPrefix(p, q) == Len(p) <= Len(q) /\ SubSeq(q, 1, Len(p)) = p

Occurs(t, q) ==
    \E i \in 1..(Len(q) - Len(t) + 1) : SubSeq(q, i, i + Len(t) - 1) = t

\* {"error":C,"message":D} with C and D as JSON strings.
Envelope(c, d) ==
    <<"{", "\"", "e", "r", "r", "o", "r", "\"", ":">> \o Quote(c)
        \o <<",", "\"", "m", "e", "s", "s", "a", "g", "e", "\"", ":">>
        \o Quote(d) \o <<"}">>

\* {"error":"Internal Server Error","message":""}
InternalServerErrorBody ==
    <<"{", "\"", "e", "r", "r", "o", "r", "\"", ":", "\"", "I", "n",
      "t", "e", "r", "n", "a", "l", " ", "S", "e", "r", "v", "e",
      "r", " ", "E", "r", "r", "o", "r", "\"", ",", "\"", "m", "e",
      "s", "s", "a", "g", "e", "\"", ":", "\"", "\"", "}">>

\* The envelope of code a and detail less-than sign, the latter escaped.
EnvelopeOfAAndLess ==
    <<"{", "\"", "e", "r", "r", "o", "r", "\"", ":", "\"", "a", "\"",
      ",", "\"", "m", "e", "s", "s", "a", "g", "e", "\"", ":", "\"",
      "\\", "u", "0", "0", "3", "c", "\"", "}">>

\* The JSON that Respond is expected to send for a serializable value.
Serialization(data) ==
    CASE data.type = "string" -> Quote(data.val[1])
      [] data.type = "ErrorResponse" -> Envelope(data.val[1], data.val[2])
      [] data.type = "nil" -> <<"n", "u", "l", "l">>

Serializable(data) == data.type \in {"string", "ErrorResponse", "nil"}

----------------------------------------------------------------------------
\* C1 (as stated): for any value and any status code other than 204, a call
\* of Respond with the request values in the context, whose write is
\* accepted, leaves the Content-Type header set to
\* application/json; charset=utf-8, the given status line and a body equal
\* to the serialization of the value, the writer having been called in the
\* order Header.Set, WriteHeader, Write.
C1_AnyValue ==
    (RespondReturned /\ rStatus # 204 /\ rRet # "write error") =>
        /\ WriterCalls = <<"Header.Set", "WriteHeader", "Write">>
        /\ w.header = "application/json; charset=utf-8"
        /\ w.status = rStatus
        /\ Serializable(rData)
        /\ w.body = Serialization(rData)

\* C1 (amended): for any value that json.Marshal can serialize and any status
\* code other than 204, Respond calls Header.Set, WriteHeader and Write
\* exactly once each and in that order, with the JSON content type and the
\* given status; when the write is accepted Respond returns nil and the body
\* is the serialization of the value, and when it is not Respond returns the
\* write error and the body is a strict prefix of the serialization.
C1_SerializableValue ==
    (RespondReturned /\ rStatus # 204 /\ Serializable(rData)) =>
        /\ WriterCalls = <<"Header.Set", "WriteHeader", "Write">>
        /\ w.header = "application/json; charset=utf-8"
        /\ w.status = rStatus
        /\ rRet \in {"nil", "write error"}
        /\ rRet = "nil" => w.body = Serialization(rData)
        /\ rRet = "write error" =>
            (IsPrefix(w.body, Serialization(rData))
                /\ w.body # Serialization(rData))
        /\ (rRet = "nil" /\ rData = StringValue(<<"<">>)) =>
            w.body = <<"\"", "\\", "u", "0", "0", "3", "c", "\"">>

C1_Witness ==
    /\ op = "Respond"
    /\ pc = "done"
    /\ rStatus = 200
    /\ rData = StringValue(<<"<">>)
    /\ rRet = "nil"
    /\ Len(w.body) = 8

\* C2: for status code 204 Respond writes only the status line and returns
\* nil: no body, no Content-Type header, and json.Marshal is never called,
\* so a value that cannot be serialized causes no failure.
C2_NoContent ==
    (RespondReturned /\ rStatus = 204) =>
        /\ rRet = "nil"
        /\ calls = <<"WriteHeader">>
        /\ w = [header |-> "", status |-> 204, body |-> <<>>]

C2_Witness ==
    /\ op = "Respond"
    /\ pc = "done"
    /\ rStatus = 204
    /\ rData = ChanValue
    /\ rRet = "nil"
    /\ w.status = 204

\* C3 (as stated): for every error whose root cause is a PublicError with
\* code C and detail D and for every caller-supplied status code, a
\* RespondError that returns nil has sent the caller's status and the body
\* {"error":C,"message":D}.
C3_EveryStatus ==
    (RespondErrorReturned /\ PublicRoot /\ eRet = "nil") =>
        /\ w.status = eStatus
        /\ w.body = Envelope(Root.code, Root.detail)

\* C3 (amended): for every error whose root cause is a PublicError with code
\* C and detail D, RespondError sends the caller's status; for every
\* caller-supplied status code other than 204 a RespondError that returns
\* nil has sent the body {"error":C,"message":D} (C and D JSON-encoded),
\* and for 204 it has sent no body.
C3_StatusWithBody ==
    (RespondErrorReturned /\ PublicRoot) =>
        /\ w.status = eStatus
        /\ (eStatus # 204 /\ eRet = "nil") =>
            w.body = Envelope(Root.code, Root.detail)
        /\ (eStatus # 204 /\ eRet = "nil"
                /\ Root.code = <<"a">> /\ Root.detail = <<"<">>) =>
            w.body = EnvelopeOfAAndLess
        /\ eStatus = 204 => (w.body = <<>> /\ eRet = "nil")

C3_Witness ==
    /\ RespondErrorReturned
    /\ Len(eErr) = 2
    /\ eErr[1].kind = "opaque"
    /\ PublicRoot
    /\ Root.code = <<"a">>
    /\ Root.detail = <<"<">>
    /\ eStatus = 400
    /\ eRet = "nil"
    /\ w.body = EnvelopeOfAAndLess

\* C4: for every error whose root cause is not a PublicError, the nil error
\* included, RespondError sends status 500 whatever status the caller gave
\* (204 included), and when it returns nil the body is
\* {"error":"Internal Server Error","message":""}; what is sent of the body
\* is always a prefix of it, and no layer's error text occurs in it.
C4_InternalServerError ==
    (RespondErrorReturned /\ ~PublicRoot) =>
        /\ w.status = 500
        /\ w.header = "application/json; charset=utf-8"
        /\ v.StatusCode = 500
        /\ eRet \in {"nil", "write error"}
        /\ eRet = "nil" => w.body = InternalServerErrorBody
        /\ IsPrefix(w.body, InternalServerErrorBody)
        /\ \A i \in 1..Len(eErr) : ~Occurs(eErr[i].text, w.body)

C4_Witness ==
    /\ RespondErrorReturned
    /\ Len(eErr) = 2
    /\ eErr[1].kind = "public"
    /\ Root.kind = "opaque"
    /\ eStatus = 204
    /\ eRet = "nil"
    /\ w.status = 500
    /\ w.body = InternalServerErrorBody

\* C5: if the downstream handler panics with value V, the Panics middleware
\* returns normally to its caller with the panic stopped, having logged one
\* line with V and then one line with the request's trace identifier and
\* the stack trace.
C5_PanicLogged ==
    (PanicsReturned /\ hPanic # "none") =>
        /\ panicking = "none"
        /\ ~exited
        /\ Len(logs) = 2
        /\ logs[1].format = "panic: %v"
        /\ logs[1].args[1] \in
            {hPanic} \cup (IF hPanic = "nil" THEN {"PanicNilError"} ELSE {})
        /\ logs[2] = StackLine(v.TraceID)

\* C6: when the *Values struct is missing from the context, Respond (called
\* directly or by RespondError) and the Panics middleware terminate the
\* process; up to and after that point nothing is written to the response
\* (no header, no status line, no body), nothing is serialized or returned,
\* and the downstream handler is never invoked.
C6_MissingValuesState ==
    (op # "none" /\ ~hasValues) =>
        /\ w = NewWriter
        /\ calls = <<>>
        /\ afterCalls = 0
        /\ rRet = "none"
        /\ eRet = "none"
        /\ pc \in {"Respond", "RespondError", "RespondErrorSwitch", "Panics",
                   "PanicsValues", "exited"}
        /\ exited <=> pc = "exited"
        /\ exited => logs = <<FatalLine>>

C7_NeverCrashes ==
    op = "Panics" =>
        /\ panicking # "none" => pc = "PanicsDeferred"
        /\ ~exited
        /\ pc # "exited"

\* C8: when json.Marshal fails for a status other than 204, Respond returns
\* that error having called nothing on the writer: no Content-Type header,
\* no status line, no body.
C8_MarshalFailure ==
    (RespondReturned /\ rStatus # 204 /\ rData.type = "chan") =>
        /\ rRet = "marshal error"
        /\ WriterCalls = <<>>
        /\ w = NewWriter

C8_Witness ==
    /\ op = "Respond"
    /\ pc = "done"
    /\ rData = ChanValue
    /\ rStatus = 400
    /\ rRet = "marshal error"
    /\ w = NewWriter

\* C9: the span RespondError opens is ended exactly once on every path out
\* of RespondError: public branch, default branch, Respond succeeding,
\* Respond failing, and Respond finding no *Values in the context.
C9_SpanEnded ==
    (op = "RespondError" /\ pc \in {"done", "exited"}) =>
        /\ span.started = 1
        /\ span.ended = 1

\* C10: Respond records the status code in the *Values struct before it
\* serializes or writes anything, so once Respond has called json.Marshal or
\* the writer, and after every return of Respond (nil, marshal error or
\* write error), v.StatusCode is Respond's status argument, also when no
\* status line was sent; through RespondError's default branch that is 500
\* and not the caller's status.
C10_StatusRecorded ==
    /\ (calls # <<>> \/ RespondReturned) => v.StatusCode = rStatus
    /\ (RespondErrorReturned /\ ~PublicRoot) => v.StatusCode = 500
    /\ (RespondErrorReturned /\ PublicRoot) => v.StatusCode = eStatus

C10_Witness ==
    /\ op = "Respond"
    /\ pc = "done"
    /\ rRet = "marshal error"
    /\ rStatus = 200
    /\ v.StatusCode = 200
    /\ w.status = 0

====
